---- MODULE Spec2Model ----
(***************************************************************************)
(* A model of the rand_key key generator: the RandKey engine of            *)
(* src/src/lib.rs with its helpers of src/src/utils.rs, and the engine     *)
(* combination (+ and +=) of src/src/prelude.rs.                           *)
(*                                                                         *)
(* A character is its Unicode code point; a text (String, &str) is a       *)
(* sequence of characters.  A BigUint is a natural number.                 *)
(***************************************************************************)
EXTENDS Integers, Sequences, FiniteSets, TLC

(***************************************************************************)
(* Bounds of the model.                                                    *)
(***************************************************************************)
\* largest count a caller sets with new / set_cnt
MaxCnt == 1
\* largest unit a caller sets with set_unit
MaxUnit == 2
\* longest text handed to set_key
MaxText == 2
\* longest item list handed to add_item / del_item / replace_data
MaxItems == 2
\* longest alphabet subset kept (subsets grow only by repeated characters)
MaxData == 3
\* longest numeral handed to new / set_cnt / set_unit
MaxNumLen == 2

(***************************************************************************)
(* The characters of the model: two letters, one punctuation character,    *)
(* one digit, the space (printable ASCII of no class), a control character *)
(* and a non-ASCII character (two bytes in UTF-8).                         *)
(***************************************************************************)
Chars == {97, 98, 46, 49, 32, 10, 233}
\* the characters of the texts handed to set_key: one character of each kind
TextChars == {97, 46, 49, 32, 233}
\* the characters numerals are written with: '-' and the digits '0', '1', ...
\* that write the counts and units within the bounds
NumChars == {45} \cup {48 + d : d \in 0..(IF MaxCnt > MaxUnit THEN MaxCnt ELSE MaxUnit)}

\* char::is_ascii
is_ascii(c) == c >= 0 /\ c <= 127
\* char::is_ascii_alphabetic
is_ascii_alphabetic(c) == (c >= 65 /\ c <= 90) \/ (c >= 97 /\ c <= 122)
\* char::is_ascii_digit
is_ascii_digit(c) == c >= 48 /\ c <= 57
\* char::is_ascii_punctuation
is_ascii_punctuation(c) ==
    \/ (c >= 33 /\ c <= 47)
    \/ (c >= 58 /\ c <= 64)
    \/ (c >= 91 /\ c <= 96)
    \/ (c >= 123 /\ c <= 126)
\* char::is_ascii_control
is_ascii_control(c) == (c >= 0 /\ c <= 31) \/ c = 127
\* char::len_utf8
len_utf8(c) == IF c < 128 THEN 1 ELSE IF c < 2048 THEN 2 ELSE IF c < 65536 THEN 3 ELSE 4

\* the three classes, in the order of DATA's three subsets
InClass(k, c) ==
    CASE k = 1 -> is_ascii_alphabetic(c)
      [] k = 2 -> is_ascii_punctuation(c)
      [] k = 3 -> is_ascii_digit(c)

(***************************************************************************)
(* Sequence helpers.                                                       *)
(***************************************************************************)
RECURSIVE SeqSum(_)
SeqSum(s) == IF s = <<>> THEN 0 ELSE Head(s) + SeqSum(Tail(s))

\* Vec::contains / slice::contains
Contains(s, x) == \E i \in 1..Len(s) : s[i] = x

\* Vec::retain with the predicate "is not in v"
RECURSIVE RetainNotIn(_, _)
RetainNotIn(s, v) ==
    IF s = <<>> THEN <<>>
    ELSE IF Contains(v, Head(s)) THEN RetainNotIn(Tail(s), v)
         ELSE <<Head(s)>> \o RetainNotIn(Tail(s), v)

\* the characters of s that are in class k, in the order of s
ClassOf(k, s) == SelectSeq(s, LAMBDA c : InClass(k, c))

\* how many elements of s are in class k
Count(k, s) == Len(ClassOf(k, s))

\* all sequences over S of length at most n
SeqsUpTo(S, n) == UNION {[1..m -> S] : m \in 0..n}

\* s without its i-th element
RemoveAt(s, i) == [j \in 1..(Len(s) - 1) |-> IF j < i THEN s[j] ELSE s[j + 1]]

\* all orders of the elements of s (the outcomes of a parallel push, of a shuffle)
RECURSIVE Perms(_)
Perms(s) ==
    IF s = <<>> THEN {<<>>}
    ELSE UNION {{<<s[i]>> \o p : p \in Perms(RemoveAt(s, i))} : i \in 1..Len(s)}

\* String::len: the length in bytes
ByteLen(s) == SeqSum([i \in 1..Len(s) |-> len_utf8(s[i])])

(***************************************************************************)
(* The helpers of src/src/utils.rs.                                        *)
(***************************************************************************)
\* the characters of lo..hi that the model has and that are in class k, ascending
RECURSIVE RangeClass(_, _, _)
RangeClass(k, lo, hi) ==
    IF lo > hi THEN <<>>
    ELSE (IF lo \in Chars /\ InClass(k, lo) THEN <<lo>> ELSE <<>>)
            \o RangeClass(k, lo + 1, hi)

\* _DATA(): the default alphabet, the characters 33..127 (127 excluded) by class
_DATA == <<RangeClass(1, 33, 126), RangeClass(2, 33, 126), RangeClass(3, 33, 126)>>

\* an operation's result: Ok with a value, or Err with an error
Ok(v) == [ok |-> TRUE, val |-> v, err |-> "Ok"]
Err(e) == [ok |-> FALSE, val |-> <<>>, err |-> e]

\* _CNT with the sum of the counts not compared to the length
CntUnchecked(content) ==
    Ok(<<Count(1, SelectSeq(content, is_ascii)), Count(2, SelectSeq(content, is_ascii)),
         Count(3, SelectSeq(content, is_ascii))>>)

\* _CNT(content): the numbers of letters, punctuation characters and digits;
\* InvalidChar when they do not add up to the length of content in bytes
_CNT(content) ==
    LET l == Count(1, SelectSeq(content, is_ascii))
        s == Count(2, SelectSeq(content, is_ascii))
        n == Count(3, SelectSeq(content, is_ascii))
    IN  IF l + s + n # ByteLen(content) THEN Err("InvalidChar") ELSE Ok(<<l, s, n>>)

\* _RAND_IDX(cnt, length): the possible results, cnt draws of gen_range(0, length)
_RAND_IDX(cnt, length) == [1..cnt -> 0..(length - 1)]

\* gen_range(0, 0) panics: _RAND_IDX draws (cnt > 0) from an empty range
RandIdxPanics(cnt, length) == cnt > 0 /\ length = 0

\* _DIV_UNIT with the last chunk, the remainder, not pushed
RECURSIVE DivUnitNoRemainder(_, _)
DivUnitNoRemainder(unit, n) ==
    IF n < unit THEN [ret |-> <<>>, n |-> n]
    ELSE LET rest == DivUnitNoRemainder(unit, n - unit)
         IN  [ret |-> <<unit>> \o rest.ret, n |-> rest.n]

\* _DIV_UNIT(unit, n): the chunks pushed to ret, and what is left in n
RECURSIVE _DIV_UNIT(_, _)
_DIV_UNIT(unit, n) ==
    IF n < unit THEN [ret |-> <<n>>, n |-> n]
    ELSE LET rest == _DIV_UNIT(unit, n - unit)
         IN  [ret |-> <<unit>> \o rest.ret, n |-> rest.n]

\* check_ascii with the control characters let through
CheckAsciiOnly(v) == \A i \in 1..Len(v) : is_ascii(v[i])

\* check_ascii(v): every item is ASCII and not a control character
check_ascii(v) == \A i \in 1..Len(v) : is_ascii(v[i]) /\ ~is_ascii_control(v[i])

\* group(v): the possible results; the items are pushed to their class's vector
\* by parallel workers, so each vector holds its class's items in some order
group(v) ==
    {<<l, s, n>> : l \in Perms(ClassOf(1, v)), s \in Perms(ClassOf(2, v)),
                   n \in Perms(ClassOf(3, v))}

\* Vec::dedup_by_key(|x| x as u8): drops an element whose key equals the key of
\* the element before it
RECURSIVE dedup_by_key(_)
dedup_by_key(s) ==
    IF Len(s) <= 1 THEN s
    ELSE LET front == dedup_by_key(SubSeq(s, 1, Len(s) - 1))
         IN  IF s[Len(s)] % 256 = s[Len(s) - 1] % 256 THEN front
             ELSE Append(front, s[Len(s)])

(***************************************************************************)
(* Numerals.  AsBiguint::as_biguint is imported by lib.rs from the prelude *)
(* but is not among the sources: a decimal numeral, one or more ASCII      *)
(* digits, parses to its value, and any other text is InvalidNumber.       *)
(***************************************************************************)
RECURSIVE DecVal(_)
DecVal(t) == IF t = <<>> THEN 0 ELSE 10 * DecVal(SubSeq(t, 1, Len(t) - 1)) + (t[Len(t)] - 48)

as_biguint(t) ==
    IF Len(t) > 0 /\ \A i \in 1..Len(t) : is_ascii_digit(t[i])
    THEN Ok(DecVal(t))
    ELSE Err("InvalidNumber")

\* the numerals callers hand in
Numerals == SeqsUpTo(NumChars, MaxNumLen)

\* u16::MAX, the unit of a new engine
U16_MAX == 65535

(***************************************************************************)
(* The state: the engine r_p (struct RandKey), the last call with its       *)
(* arguments (call) and what it returned (ret): "Ok", the name of the      *)
(* GenError, or "panic".                                                   *)
(***************************************************************************)
VARIABLES r_p, call, ret

vars == <<r_p, call, ret>>

\* a call: the operation, its text or item list or numeral, and its selector
\* (the kind of clear / set_cnt, the op of set_key)
Call(op, text, sel) == [op |-> op, text |-> text, sel |-> sel]

\* check_init with the third text not looked at
CheckInitFirstTwo(l, s, n) == as_biguint(l).ok /\ as_biguint(s).ok

\* RandKey::check_init
check_init(l, s, n) == as_biguint(l).ok /\ as_biguint(s).ok /\ as_biguint(n).ok

\* RandKey::new
new(l, s, n) ==
    IF check_init(l, s, n)
    THEN Ok([ltr_cnt |-> as_biguint(l).val,
             sbl_cnt |-> as_biguint(s).val,
             num_cnt |-> as_biguint(n).val,
             key     |-> <<>>,
             UNIT    |-> U16_MAX,
             DATA    |-> _DATA])
    ELSE Err("InvalidNumber")

\* check_data with the symbols not looked at
CheckDataNoSymbols(self) ==
    IF ~((self.ltr_cnt # 0 /\ self.DATA[1] = <<>>) \/ (self.num_cnt # 0 /\ self.DATA[3] = <<>>))
    THEN "Ok" ELSE "MissChar"

\* RandKey::check_data
check_data(self) ==
    LET L == self.ltr_cnt = 0
        S == self.sbl_cnt = 0
        N == self.num_cnt = 0
        dl == self.DATA[1] = <<>>
        ds == self.DATA[2] = <<>>
        dn == self.DATA[3] = <<>>
        dl_L == ~L /\ dl
        ds_S == ~S /\ ds
        dn_N == ~N /\ dn
    IN  IF ~(dl_L \/ ds_S \/ dn_N) THEN "Ok" ELSE "MissChar"

\* RandKey::set_key
set_key(val, op) ==
    /\ LET c == _CNT(val)
       IN  IF ~c.ok
           THEN ret' = c.err /\ r_p' = r_p
           ELSE CASE op = "update" ->
                       /\ r_p' = [r_p EXCEPT !.ltr_cnt = c.val[1], !.sbl_cnt = c.val[2],
                                             !.num_cnt = c.val[3], !.key = val]
                       /\ ret' = "Ok"
                  [] op = "check" ->
                       IF <<r_p.ltr_cnt, r_p.sbl_cnt, r_p.num_cnt>> = c.val
                       THEN r_p' = [r_p EXCEPT !.key = val] /\ ret' = "Ok"
                       ELSE r_p' = r_p /\ ret' = "InvalidOperation"
                  [] OTHER -> r_p' = r_p /\ ret' = "Ok"
    /\ call' = Call("set_key", val, op)

\* set_unit with the value not compared to zero
SetUnitNoZeroCheck(val) ==
    /\ LET v == as_biguint(val)
       IN  IF ~v.ok THEN ret' = v.err /\ r_p' = r_p
           ELSE v.val <= MaxUnit /\ r_p' = [r_p EXCEPT !.UNIT = v.val] /\ ret' = "Ok"
    /\ call' = Call("set_unit", val, "")

\* RandKey::set_unit
set_unit(val) ==
    /\ LET v == as_biguint(val)
       IN  IF ~v.ok THEN ret' = v.err /\ r_p' = r_p
           ELSE IF v.val = 0 THEN ret' = "InvalidUnit" /\ r_p' = r_p
           ELSE v.val <= MaxUnit /\ r_p' = [r_p EXCEPT !.UNIT = v.val] /\ ret' = "Ok"
    /\ call' = Call("set_unit", val, "")

\* RandKey::set_cnt
set_cnt(kind, val) ==
    /\ LET v == as_biguint(val)
       IN  CASE kind \in {"L", "S", "N"} /\ ~v.ok -> ret' = v.err /\ r_p' = r_p
             [] kind = "L" /\ v.ok ->
                  v.val <= MaxCnt /\ r_p' = [r_p EXCEPT !.ltr_cnt = v.val] /\ ret' = "Ok"
             [] kind = "S" /\ v.ok ->
                  v.val <= MaxCnt /\ r_p' = [r_p EXCEPT !.sbl_cnt = v.val] /\ ret' = "Ok"
             [] kind = "N" /\ v.ok ->
                  v.val <= MaxCnt /\ r_p' = [r_p EXCEPT !.num_cnt = v.val] /\ ret' = "Ok"
             [] OTHER -> ret' = "InvalidKind" /\ r_p' = r_p
    /\ call' = Call("set_cnt", val, kind)

\* RandKey::clear_all
clear_all ==
    /\ r_p' = [r_p EXCEPT !.DATA = <<<<>>, <<>>, <<>>>>]
    /\ ret' = "Ok"
    /\ call' = Call("clear_all", <<>>, "")

\* RandKey::clear
clear(kind) ==
    /\ CASE kind = "L" -> r_p' = [r_p EXCEPT !.DATA[1] = <<>>] /\ ret' = "Ok"
         [] kind = "S" -> r_p' = [r_p EXCEPT !.DATA[2] = <<>>] /\ ret' = "Ok"
         [] kind = "N" -> r_p' = [r_p EXCEPT !.DATA[3] = <<>>] /\ ret' = "Ok"
         [] OTHER -> r_p' = r_p /\ ret' = "InvalidKind"
    /\ call' = Call("clear", <<>>, kind)

\* the alphabet subsets stay within the model's bound
DataBounded(d) == \A k \in 1..3 : Len(d[k]) <= MaxData

\* RandKey::del_item
del_item(items) ==
    /\ LET all == r_p.DATA[1] \o r_p.DATA[2] \o r_p.DATA[3]
       IN  IF check_ascii(items)
           THEN LET v == dedup_by_key(items)
                IN  IF \A i \in 1..Len(v) : Contains(all, v[i])
                    THEN /\ \E g \in group(RetainNotIn(all, v)) :
                                r_p' = [r_p EXCEPT !.DATA = g]
                         /\ ret' = "Ok"
                    ELSE r_p' = r_p /\ ret' = "DelNonExistValue"
           ELSE r_p' = r_p /\ ret' = "InvalidChar"
    /\ call' = Call("del_item", items, "")

\* RandKey::add_item
add_item(val) ==
    /\ IF check_ascii(val)
       THEN /\ \E g \in group(val) :
                  LET d == [i \in 1..3 |-> dedup_by_key(r_p.DATA[i] \o g[i])]
                  IN  DataBounded(d) /\ r_p' = [r_p EXCEPT !.DATA = d]
            /\ ret' = "Ok"
       ELSE r_p' = r_p /\ ret' = "InvalidChar"
    /\ call' = Call("add_item", val, "")

\* replace_data with the data checked before it is replaced
ReplaceDataCheckedBefore(val) ==
    /\ IF check_ascii(val)
       THEN LET d == <<ClassOf(1, val), ClassOf(2, val), ClassOf(3, val)>>
            IN  /\ DataBounded(d)
                /\ r_p' = [r_p EXCEPT !.DATA = d]
                /\ ret' = check_data(r_p)
       ELSE r_p' = r_p /\ ret' = "InvalidChar"
    /\ call' = Call("replace_data", val, "")

\* RandKey::replace_data
replace_data(val) ==
    /\ IF check_ascii(val)
       THEN LET d == <<ClassOf(1, val), ClassOf(2, val), ClassOf(3, val)>>
            IN  /\ DataBounded(d)
                /\ r_p' = [r_p EXCEPT !.DATA = d]
                /\ ret' = check_data([r_p EXCEPT !.DATA = d])
       ELSE r_p' = r_p /\ ret' = "InvalidChar"
    /\ call' = Call("replace_data", val, "")

\* the strings one class of join can produce: for each chunk in turn, the
\* characters of data at the indices _RAND_IDX draws
RECURSIVE ClassStrings(_, _)
ClassStrings(chunks, data) ==
    IF chunks = <<>> THEN {<<>>}
    ELSE {[i \in 1..Head(chunks) |-> data[idx[i] + 1]] \o rest :
            idx \in _RAND_IDX(Head(chunks), Len(data)),
            rest \in ClassStrings(Tail(chunks), data)}

\* join's sampling panics: some chunk of some class makes _RAND_IDX panic
JoinPanics(self) ==
    \E k \in 1..3 :
        LET cnt == <<self.ltr_cnt, self.sbl_cnt, self.num_cnt>>[k]
            chunks == _DIV_UNIT(self.UNIT, cnt).ret
        IN  \E i \in 1..Len(chunks) : RandIdxPanics(chunks[i], Len(self.DATA[k]))

\* the keys join can store: a shuffle of the letters, then the symbols, then
\* the numbers drawn chunk by chunk
JoinKeys(self) ==
    UNION {Perms(l \o s \o n) :
            l \in ClassStrings(_DIV_UNIT(self.UNIT, self.ltr_cnt).ret, self.DATA[1]),
            s \in ClassStrings(_DIV_UNIT(self.UNIT, self.sbl_cnt).ret, self.DATA[2]),
            n \in ClassStrings(_DIV_UNIT(self.UNIT, self.num_cnt).ret, self.DATA[3])}

\* join with the data not checked before the sampling
JoinUnchecked ==
    /\ IF JoinPanics(r_p)
       THEN r_p' = r_p /\ ret' = "panic"
       ELSE /\ \E key \in JoinKeys(r_p) : r_p' = [r_p EXCEPT !.key = key]
            /\ ret' = "Ok"
    /\ call' = Call("join", <<>>, "")

\* join with the chunks taken off the engine's own counts, not off a clone's
JoinNoClone ==
    /\ IF check_data(r_p) = "Ok"
       THEN IF JoinPanics(r_p)
            THEN r_p' = r_p /\ ret' = "panic"
            ELSE /\ \E key \in JoinKeys(r_p) :
                        r_p' = [r_p EXCEPT !.key = key,
                                           !.ltr_cnt = _DIV_UNIT(r_p.UNIT, r_p.ltr_cnt).n,
                                           !.sbl_cnt = _DIV_UNIT(r_p.UNIT, r_p.sbl_cnt).n,
                                           !.num_cnt = _DIV_UNIT(r_p.UNIT, r_p.num_cnt).n]
                 /\ ret' = "Ok"
       ELSE r_p' = r_p /\ ret' = check_data(r_p)
    /\ call' = Call("join", <<>>, "")

\* RandKey::join
join ==
    /\ LET inner_r_p == r_p
       IN  IF check_data(inner_r_p) = "Ok"
           THEN IF JoinPanics(inner_r_p)
                THEN r_p' = r_p /\ ret' = "panic"
                ELSE /\ \E key \in JoinKeys(inner_r_p) : r_p' = [r_p EXCEPT !.key = key]
                     /\ ret' = "Ok"
           ELSE r_p' = r_p /\ ret' = check_data(inner_r_p)
    /\ call' = Call("join", <<>>, "")

(***************************************************************************)
(* Engine combination, src/src/prelude.rs (there the engine is RandPwd,    *)
(* its key is content, and its unit and alphabet are _UNIT and _DATA).     *)
(***************************************************************************)
\* largest count and longest key a combination is followed to
MaxSum == 2

SumBounded(e) ==
    /\ e.ltr_cnt <= MaxSum /\ e.sbl_cnt <= MaxSum /\ e.num_cnt <= MaxSum
    /\ Len(e.key) <= MaxSum

\* + with the right operand's key put first
AddKeyReversed(rhs) ==
    /\ r_p' = [ltr_cnt |-> r_p.ltr_cnt + rhs.ltr_cnt,
               sbl_cnt |-> r_p.sbl_cnt + rhs.sbl_cnt,
               num_cnt |-> r_p.num_cnt + rhs.num_cnt,
               key     |-> rhs.key \o r_p.key,
               UNIT    |-> 1,
               DATA    |-> _DATA]
    /\ SumBounded(r_p')
    /\ ret' = "Ok"
    /\ call' = [op |-> "add", text |-> <<>>, sel |-> "", rhs |-> rhs]

\* impl Add for RandPwd: self + rhs
add(rhs) ==
    /\ r_p' = [ltr_cnt |-> r_p.ltr_cnt + rhs.ltr_cnt,
               sbl_cnt |-> r_p.sbl_cnt + rhs.sbl_cnt,
               num_cnt |-> r_p.num_cnt + rhs.num_cnt,
               key     |-> r_p.key \o rhs.key,
               UNIT    |-> 1,
               DATA    |-> _DATA]
    /\ SumBounded(r_p')
    /\ ret' = "Ok"
    /\ call' = [op |-> "add", text |-> <<>>, sel |-> "", rhs |-> rhs]

\* += with the right operand's key not appended
AddAssignCountsOnly(rhs) ==
    /\ r_p' = [r_p EXCEPT !.ltr_cnt = r_p.ltr_cnt + rhs.ltr_cnt,
                          !.sbl_cnt = r_p.sbl_cnt + rhs.sbl_cnt,
                          !.num_cnt = r_p.num_cnt + rhs.num_cnt]
    /\ SumBounded(r_p')
    /\ ret' = "Ok"
    /\ call' = [op |-> "add_assign", text |-> <<>>, sel |-> "", rhs |-> rhs]

\* impl AddAssign for RandPwd: self += rhs
add_assign(rhs) ==
    /\ r_p' = [r_p EXCEPT !.ltr_cnt = r_p.ltr_cnt + rhs.ltr_cnt,
                          !.sbl_cnt = r_p.sbl_cnt + rhs.sbl_cnt,
                          !.num_cnt = r_p.num_cnt + rhs.num_cnt,
                          !.key     = r_p.key \o rhs.key]
    /\ SumBounded(r_p')
    /\ ret' = "Ok"
    /\ call' = [op |-> "add_assign", text |-> <<>>, sel |-> "", rhs |-> rhs]

(***************************************************************************)
(* The arguments callers hand in.                                          *)
(***************************************************************************)
Texts == SeqsUpTo(TextChars, MaxText)
ItemLists == SeqsUpTo(Chars, MaxItems)
Kinds == {"L", "S", "N", "X"}
Ops == {"update", "check", "other"}
\* the numerals of at most one character
ShortNumerals == SeqsUpTo(NumChars, 1)
\* the engines an engine is combined with: as constructed with no or with
\* MaxCnt characters of each class asked for, or with a key of one letter or
\* one digit and the counts of that key; each with the unit and the alphabet
\* as constructed, or with the unit MaxUnit and an alphabet of one letter
OperandKeys ==
    {<<<<0, 0, 0>>, <<>>>>, <<<<MaxCnt, MaxCnt, MaxCnt>>, <<>>>>,
     <<<<1, 0, 0>>, <<98>>>>, <<<<0, 0, 1>>, <<49>>>>}
OperandSettings == {<<U16_MAX, _DATA>>, <<MaxUnit, <<<<98>>, <<>>, <<>>>>>>}
Operands ==
    {[ltr_cnt |-> k[1][1], sbl_cnt |-> k[1][2], num_cnt |-> k[1][3], key |-> k[2],
      UNIT |-> t[1], DATA |-> t[2]] : k \in OperandKeys, t \in OperandSettings}

\* an engine right after new(l, s, n), for the numerals of Nums within MaxCnt
Constructed(Nums) ==
    \E l, s, n \in Nums :
        /\ new(l, s, n).ok
        /\ r_p = new(l, s, n).val
        /\ r_p.ltr_cnt <= MaxCnt /\ r_p.sbl_cnt <= MaxCnt /\ r_p.num_cnt <= MaxCnt
        /\ call = Call("new", l \o s \o n, "")
        /\ ret = "Ok"

(***************************************************************************)
(* The alphabet: the engine new("1", "1", "1") is built and its alphabet   *)
(* is changed.                                                             *)
(***************************************************************************)
InitAlphabet == Constructed({<<49>>})

NextAlphabet ==
    \/ clear_all
    \/ \E kind \in Kinds : clear(kind)
    \/ \E items \in ItemLists : del_item(items)
    \/ \E val \in ItemLists : add_item(val)
    \/ \E val \in ItemLists : replace_data(val)

SpecAlphabet == InitAlphabet /\ [][NextAlphabet]_vars

(***************************************************************************)
(* Replacing the alphabet: an engine is built with any counts, its counts  *)
(* are set and its alphabet is replaced.                                   *)
(***************************************************************************)
InitReplace == Constructed(ShortNumerals)

NextReplace ==
    \/ \E val \in ItemLists : replace_data(val)
    \/ \E kind \in Kinds, val \in ShortNumerals : set_cnt(kind, val)

SpecReplace == InitReplace /\ [][NextReplace]_vars

(***************************************************************************)
(* Combination: an engine is built, its key, unit and alphabet are set,    *)
(* and it is combined with other engines.                                  *)
(***************************************************************************)
InitAdd == Constructed(ShortNumerals)

NextAdd ==
    \/ \E val \in {<<>>, <<97>>, <<233>>}, op \in Ops : set_key(val, op)
    \/ \E val \in ShortNumerals : set_unit(val)
    \/ \E kind \in Kinds : clear(kind)
    \/ \E rhs \in Operands : add(rhs)
    \/ \E rhs \in Operands : add_assign(rhs)

SpecAdd == InitAdd /\ [][NextAdd]_vars

(***************************************************************************)
(* The key: an engine is built, its counts and its key are set.            *)
(***************************************************************************)
InitKey == Constructed(ShortNumerals)

NextKey ==
    \/ \E val \in Texts, op \in Ops : set_key(val, op)
    \/ \E kind \in Kinds, val \in ShortNumerals : set_cnt(kind, val)

SpecKey == InitKey /\ [][NextKey]_vars

(***************************************************************************)
(* Generation: an engine is built, its counts and unit are set, classes of *)
(* its alphabet are cleared, and keys are generated.                       *)
(***************************************************************************)
InitJoin == Constructed(ShortNumerals)

NextJoin ==
    \/ join
    \/ \E val \in ShortNumerals : set_unit(val)
    \/ \E kind \in Kinds, val \in ShortNumerals : set_cnt(kind, val)
    \/ \E kind \in Kinds : clear(kind)
    \/ clear_all

SpecJoin == InitJoin /\ [][NextJoin]_vars

(***************************************************************************)
(* The whole program: an engine of letters is built (no symbols and no     *)
(* numbers are asked for), and then any operation is called any number of  *)
(* times: with no character, with a letter or with a character that is not *)
(* ASCII; with any numeral of at most one character; for the letters or    *)
(* for an unknown kind; with one of two operands.                          *)
(***************************************************************************)
Probes == {<<>>, <<97>>, <<233>>}
LetterKinds == {"L", "X"}
\* two operands: an engine as constructed, and one with a key of one letter,
\* the unit MaxUnit and only that letter in its alphabet
SomeOperands ==
    {e \in Operands :
        \/ e.key = <<>> /\ e.ltr_cnt = 0 /\ e.sbl_cnt = 0 /\ e.num_cnt = 0
               /\ e.UNIT = U16_MAX /\ e.DATA = _DATA
        \/ e.key = <<98>> /\ e.ltr_cnt = 1 /\ e.sbl_cnt = 0 /\ e.num_cnt = 0
               /\ e.UNIT = MaxUnit /\ e.DATA # _DATA}

Init == Constructed(ShortNumerals) /\ r_p.sbl_cnt = 0 /\ r_p.num_cnt = 0

Next ==
    \/ \E val \in Probes, op \in Ops : set_key(val, op)
    \/ \E val \in ShortNumerals : set_unit(val)
    \/ \E kind \in LetterKinds, val \in ShortNumerals : set_cnt(kind, val)
    \/ clear_all
    \/ \E kind \in LetterKinds : clear(kind)
    \/ \E items \in Probes : del_item(items)
    \/ \E val \in Probes : add_item(val)
    \/ \E val \in Probes : replace_data(val)
    \/ join
    \/ \E rhs \in SomeOperands : add(rhs)
    \/ \E rhs \in SomeOperands : add_assign(rhs)

Spec == Init /\ [][Next]_vars

(***************************************************************************)
(* Construction: new is called with three texts; until it returns there is *)
(* no engine, and there is none when it fails.                             *)
(***************************************************************************)
\* the characters of the texts handed to new: '-', '0', '1', a letter and a
\* character that is not ASCII
NewChars == {45, 48, 49, 97, 233}
NewTexts == SeqsUpTo(NewChars, MaxNumLen)

\* no engine: new has not returned one
NoEngine == <<>>

InitNew ==
    \E l, s, n \in NewTexts :
        /\ r_p = NoEngine
        /\ call = Call("new", <<l, s, n>>, "")
        /\ ret = "pending"

\* the call of RandKey::new returns
construct ==
    /\ call.op = "new" /\ ret = "pending"
    /\ LET res == new(call.text[1], call.text[2], call.text[3])
       IN  /\ r_p' = (IF res.ok THEN res.val ELSE NoEngine)
           /\ ret' = res.err
    /\ call' = call

NextNew == construct

SpecNew == InitNew /\ [][NextNew]_vars

(***************************************************************************)
(* _DIV_UNIT step by step: call holds the unit, the number n0 handed in,   *)
(* what is left of it in n, and the vector ret built so far in out; every  *)
(* turn of the loop is a step, and the function has returned when ret is   *)
(* "Ok".  The loop runs in the calling thread, which keeps running.        *)
(***************************************************************************)
\* largest unit and largest number _DIV_UNIT is called with
MaxDivUnit == 4
MaxDivN == 12

InitDivUnit ==
    \E unit \in 1..MaxDivUnit, n \in 0..MaxDivN :
        /\ r_p = NoEngine
        /\ call = [op |-> "_DIV_UNIT", text |-> <<>>, sel |-> "",
                   unit |-> unit, n0 |-> n, n |-> n, out |-> <<>>]
        /\ ret = "pending"

\* the loop's first branch with the test n <= UNIT
DivUnitBreakAtUnit ==
    /\ call.op = "_DIV_UNIT" /\ ret = "pending"
    /\ call.n <= call.unit
    /\ call' = [call EXCEPT !.out = Append(call.out, call.n)]
    /\ ret' = "Ok"
    /\ r_p' = r_p

\* the loop's first branch with n not pushed
DivUnitBreakNoPush ==
    /\ call.op = "_DIV_UNIT" /\ ret = "pending"
    /\ call.n < call.unit
    /\ call' = call
    /\ ret' = "Ok"
    /\ r_p' = r_p

\* _DIV_UNIT, the loop's first branch: n < UNIT, n is pushed and the loop left
div_unit_break ==
    /\ call.op = "_DIV_UNIT" /\ ret = "pending"
    /\ call.n < call.unit
    /\ call' = [call EXCEPT !.out = Append(call.out, call.n)]
    /\ ret' = "Ok"
    /\ r_p' = r_p

\* _DIV_UNIT, the loop's second branch: UNIT is taken off n and pushed
div_unit_push ==
    /\ call.op = "_DIV_UNIT" /\ ret = "pending"
    /\ ~(call.n < call.unit)
    /\ call' = [call EXCEPT !.n = call.n - call.unit, !.out = Append(call.out, call.unit)]
    /\ ret' = ret
    /\ r_p' = r_p

NextDivUnit ==
    \/ div_unit_break
    \/ div_unit_push

SpecDivUnit == InitDivUnit /\ [][NextDivUnit]_vars /\ WF_vars(NextDivUnit)

(***************************************************************************)
(* _CNT step by step: the characters of content are handed to parallel     *)
(* workers, in any order; a worker's closure does at most one fetch_add    *)
(* for its character, an atomic step on one of the counters l, s and n.    *)
(* call holds the content in text, the counters, and in todo the positions *)
(* whose closure has not run yet; for_each returns when none is left, and  *)
(* then the counters are loaded and compared with the length in bytes: out *)
(* is the tuple returned with Ok.                                          *)
(***************************************************************************)
\* longest content _CNT is run on step by step
MaxTally == 3

\* _CNT of prelude.rs, the sequential scan: it panics on a character that is
\* not ASCII
_CNT_sequential(content) ==
    IF \A i \in 1..Len(content) : is_ascii(content[i])
    THEN Ok(<<Count(1, content), Count(2, content), Count(3, content)>>)
    ELSE Err("panic")

InitCnt ==
    \E content \in SeqsUpTo(TextChars, MaxTally) :
        /\ r_p = NoEngine
        /\ call = [op |-> "_CNT", text |-> content, sel |-> "",
                   l |-> 0, s |-> 0, n |-> 0, todo |-> 1..Len(content), out |-> <<>>]
        /\ ret = "pending"

\* the closure with store(1) in the place of fetch_add(1)
CntItemStore(i) ==
    /\ call.op = "_CNT" /\ ret = "pending"
    /\ i \in call.todo
    /\ LET x == call.text[i]
       IN  call' = [call EXCEPT
                      !.todo = call.todo \ {i},
                      !.l = IF is_ascii(x) /\ is_ascii_alphabetic(x) THEN 1 ELSE call.l,
                      !.s = IF is_ascii(x) /\ is_ascii_punctuation(x) THEN 1 ELSE call.s,
                      !.n = IF is_ascii(x) /\ is_ascii_digit(x) THEN 1 ELSE call.n]
    /\ ret' = ret
    /\ r_p' = r_p

\* _CNT, the closure of for_each, run by some worker on the character at i
cnt_item(i) ==
    /\ call.op = "_CNT" /\ ret = "pending"
    /\ i \in call.todo
    /\ LET x == call.text[i]
       IN  call' = [call EXCEPT
                      !.todo = call.todo \ {i},
                      !.l = IF is_ascii(x) /\ is_ascii_alphabetic(x) THEN call.l + 1 ELSE call.l,
                      !.s = IF is_ascii(x) /\ is_ascii_punctuation(x) THEN call.s + 1 ELSE call.s,
                      !.n = IF is_ascii(x) /\ is_ascii_digit(x) THEN call.n + 1 ELSE call.n]
    /\ ret' = ret
    /\ r_p' = r_p

\* _CNT after for_each: the counters are loaded and their sum is compared with
\* the length of content in bytes
cnt_return ==
    /\ call.op = "_CNT" /\ ret = "pending"
    /\ call.todo = {}
    /\ IF call.l + call.s + call.n # ByteLen(call.text)
       THEN ret' = "InvalidChar" /\ call' = call
       ELSE ret' = "Ok" /\ call' = [call EXCEPT !.out = <<call.l, call.s, call.n>>]
    /\ r_p' = r_p

NextCnt ==
    \/ \E i \in 1..MaxTally : cnt_item(i)
    \/ cnt_return

SpecCnt == InitCnt /\ [][NextCnt]_vars

(***************************************************************************)
(* The claims.  A claim about what a call does is a property of every step *)
(* of a specification: r_p is the engine before the call, and r_p', call'  *)
(* and ret' are the engine after it, the call and its result.              *)
(***************************************************************************)
\* the numbers of letters, punctuation characters and digits in a text
Letters(t) == Cardinality({i \in 1..Len(t) : is_ascii_alphabetic(t[i])})
Symbols(t) == Cardinality({i \in 1..Len(t) : is_ascii_punctuation(t[i])})
Digits(t) == Cardinality({i \in 1..Len(t) : is_ascii_digit(t[i])})
Scan(t) == <<Letters(t), Symbols(t), Digits(t)>>

\* the stored counts of an engine
Counts(e) == <<e.ltr_cnt, e.sbl_cnt, e.num_cnt>>

\* the characters of an alphabet subset
Elems(d) == {d[i] : i \in 1..Len(d)}

\* C1: join on an engine with the default alphabet succeeds, and the stored
\* key has exactly ltr_cnt letters, sbl_cnt punctuation characters and num_cnt
\* digits and nothing else, whatever the unit, the draws and the shuffle.
C1_JoinDefault ==
    [][(call'.op = "join" /\ r_p.DATA = _DATA) =>
          /\ ret' = "Ok"
          /\ Scan(r_p'.key) = Counts(r_p)
          /\ Len(r_p'.key) = r_p.ltr_cnt + r_p.sbl_cnt + r_p.num_cnt]_vars

\* C1 happens: with the unit 1, a key of one letter, one punctuation character
\* and one digit has been generated from the default alphabet
C1_Witness ==
    /\ call.op = "join" /\ ret = "Ok"
    /\ r_p.DATA = _DATA /\ r_p.UNIT = 1
    /\ Counts(r_p) = <<1, 1, 1>> /\ Len(r_p.key) = 3

\* some class has a nonzero count and an empty alphabet subset
MissingClass(e) == \E k \in 1..3 : Counts(e)[k] # 0 /\ Len(e.DATA[k]) = 0

\* C2: join fails with MissChar and keeps the key when a class with a nonzero
\* count has an empty alphabet subset, and does not fail with MissChar otherwise.
C2_JoinMissChar ==
    [][call'.op = "join" =>
          IF MissingClass(r_p)
          THEN ret' = "MissChar" /\ r_p'.key = r_p.key
          ELSE ret' # "MissChar"]_vars

\* C2 happens: join has failed with MissChar on an engine that holds a key
C2_Witness ==
    /\ call.op = "join" /\ ret = "MissChar"
    /\ r_p.key # <<>> /\ MissingClass(r_p)

\* C3: set_key(text, "check") succeeds and stores text as the key when the
\* class counts of text equal the stored counts; otherwise it fails with
\* InconsistentField and leaves the key and the three counts unchanged.
C3_SetKeyCheck ==
    [][(call'.op = "set_key" /\ call'.sel = "check") =>
          IF Scan(call'.text) = Counts(r_p)
          THEN ret' = "Ok" /\ r_p'.key = call'.text
          ELSE ret' = "InconsistentField" /\ r_p'.key = r_p.key /\ Counts(r_p') = Counts(r_p)]_vars

\* what set_key(text, "check") does in lib.rs: a text with a character that
\* is no ASCII letter, punctuation character or digit is InvalidChar; otherwise
\* the text becomes the key when its class counts equal the stored counts, and
\* the call fails with InvalidOperation when they differ; only the key changes.
C3_SetKeyCheckAsCoded ==
    [][(call'.op = "set_key" /\ call'.sel = "check") =>
          CASE ~(\A i \in 1..Len(call'.text) :
                    \/ is_ascii_alphabetic(call'.text[i])
                    \/ is_ascii_punctuation(call'.text[i])
                    \/ is_ascii_digit(call'.text[i])) ->
                 ret' = "InvalidChar" /\ r_p' = r_p
            [] OTHER ->
                 IF Scan(call'.text) = Counts(r_p)
                 THEN ret' = "Ok" /\ r_p' = [r_p EXCEPT !.key = call'.text]
                 ELSE ret' = "InvalidOperation" /\ r_p' = r_p]_vars

\* every character of the text is an ASCII character
AllAscii(t) == \A i \in 1..Len(t) : is_ascii(t[i])

\* every character of the text is an ASCII letter, punctuation character or digit
AllClassed(t) ==
    \A i \in 1..Len(t) :
        is_ascii_alphabetic(t[i]) \/ is_ascii_punctuation(t[i]) \/ is_ascii_digit(t[i])

C5_AddSums ==
    [][call'.op \in {"add", "add_assign"} =>
          /\ \A k \in 1..3 : Counts(r_p')[k] = Counts(r_p)[k] + Counts(call'.rhs)[k]
          /\ r_p'.key = r_p.key \o call'.rhs.key
          /\ ret' = "Ok"]_vars

\* C5 happens: an engine holding the key "a" has been combined by + with an
\* engine holding the key "b", and the result asks for two letters
C5_Witness ==
    /\ call.op = "add" /\ call.rhs.key = <<98>>
    /\ r_p.key = <<97, 98>> /\ r_p.ltr_cnt = 2

\* C6: + yields the left operand's unit and the union of the two operands'
\* alphabets.
C6_AddUnitAlphabet ==
    [][call'.op = "add" =>
          /\ r_p'.UNIT = r_p.UNIT
          /\ \A k \in 1..3 :
                Elems(r_p'.DATA[k]) = Elems(r_p.DATA[k]) \cup Elems(call'.rhs.DATA[k])]_vars

\* every character of the list is a printable ASCII character
AllPrintable(t) == \A i \in 1..Len(t) : t[i] >= 32 /\ t[i] <= 126

AllElems(d) == Elems(d[1]) \cup Elems(d[2]) \cup Elems(d[3])

\* C8: del_item(chars) fails with InvalidChar when a requested character is
\* non-ASCII or a control character, and (the characters being valid) with
\* DelNonExistValue when a requested character is in no subset, the alphabet
\* unchanged in both cases; when it succeeds every requested character is
\* absent and every other character is still present in its class.
C8_DelItem ==
    [][call'.op = "del_item" =>
          LET items == call'.text
              invalid == \E i \in 1..Len(items) : items[i] > 127 \/ items[i] < 32 \/ items[i] = 127
              absent == \E i \in 1..Len(items) : items[i] \notin AllElems(r_p.DATA)
          IN  /\ invalid => (ret' = "InvalidChar" /\ r_p'.DATA = r_p.DATA)
              /\ (~invalid /\ absent) => (ret' = "DelNonExistValue" /\ r_p'.DATA = r_p.DATA)
              /\ (~invalid /\ ~absent) => ret' = "Ok"
              /\ ret' = "Ok" =>
                    \A k \in 1..3 :
                        /\ Elems(r_p'.DATA[k]) \cap Elems(items) = {}
                        /\ Elems(r_p.DATA[k]) \ Elems(items) \subseteq Elems(r_p'.DATA[k])]_vars

\* C8 happens: two different characters have been deleted, and a letter is
\* still in the alphabet
C8_Witness ==
    /\ call.op = "del_item" /\ ret = "Ok"
    /\ Len(call.text) = 2 /\ call.text[1] # call.text[2]
    /\ r_p.DATA[1] # <<>>

\* C9: no alphabet subset contains the same character twice.
C9_NoDuplicates ==
    \A k \in 1..3 : \A i, j \in 1..Len(r_p.DATA[k]) :
        r_p.DATA[k][i] = r_p.DATA[k][j] => i = j

\* a numeral of one or more ASCII digits
IsNumeral(t) == Len(t) > 0 /\ \A i \in 1..Len(t) : t[i] >= 48 /\ t[i] <= 57

\* C10: the unit is positive before and after every call; set_unit with the
\* value zero fails with InvalidUnit and leaves the unit unchanged, set_unit
\* with a positive value stores it, and no other call changes the unit to zero.
C10_UnitPositive ==
    [][/\ r_p.UNIT > 0 /\ r_p'.UNIT > 0
       /\ (call'.op = "set_unit" /\ IsNumeral(call'.text)) =>
             IF \A i \in 1..Len(call'.text) : call'.text[i] = 48
             THEN ret' = "InvalidUnit" /\ r_p'.UNIT = r_p.UNIT
             ELSE ret' = "Ok" /\ r_p'.UNIT = DecVal(call'.text)
       /\ (call'.op = "set_unit" /\ ~IsNumeral(call'.text)) => r_p'.UNIT = r_p.UNIT]_vars

\* C10 happens: after a unit other than the default one was stored, set_unit
\* with the value zero has failed and that unit is still stored
C10_Witness ==
    /\ call.op = "set_unit" /\ call.text = <<48>> /\ ret = "InvalidUnit"
    /\ r_p.UNIT # U16_MAX /\ r_p.UNIT > 0

\* C11: new(l, s, n) fails with InvalidNumber and yields no engine when one of
\* the three texts, in whichever position, is not a numeral of ASCII digits;
\* when all three are numerals it yields an engine with their values as the
\* counts and an empty key.
C11_NewInvalidNumber ==
    [][(call.op = "new" /\ ret = "pending") =>
          LET l == call.text[1]
              s == call.text[2]
              n == call.text[3]
          IN  IF IsNumeral(l) /\ IsNumeral(s) /\ IsNumeral(n)
              THEN /\ ret' = "Ok"
                   /\ Counts(r_p') = <<DecVal(l), DecVal(s), DecVal(n)>>
                   /\ r_p'.key = <<>>
              ELSE ret' = "InvalidNumber" /\ r_p' = NoEngine]_vars

\* C11 happens: new has failed because only its third text, a negative
\* number, is no numeral
C11_Witness ==
    /\ call.op = "new" /\ ret = "InvalidNumber" /\ r_p = NoEngine
    /\ IsNumeral(call.text[1]) /\ IsNumeral(call.text[2])
    /\ call.text[3] = <<45, 49>>

\* the class counts of the engine's key are its stored counts
KeyMatchesCounts(e) == Scan(e.key) = Counts(e)

\* C12: when the class counts of the key equal the stored counts, they still
\* do after add_item, del_item and replace_data, successful or failed, and
\* after + and += with an engine for which they are equal too.
C12_KeyMatchesCounts ==
    [][/\ (call'.op \in {"add_item", "del_item", "replace_data"} /\ KeyMatchesCounts(r_p))
            => KeyMatchesCounts(r_p')
       /\ (call'.op \in {"add", "add_assign"} /\ KeyMatchesCounts(r_p)
              /\ KeyMatchesCounts(call'.rhs))
            => KeyMatchesCounts(r_p')]_vars

\* C12 happens: an engine whose key of two letters was put together by a
\* combination, and matches its counts, has had a replace_data fail
C12_Witness ==
    /\ call.op = "replace_data" /\ ret = "MissChar"
    /\ r_p.key = <<97, 98>> /\ Counts(r_p) = <<2, 0, 0>>
    /\ r_p.DATA[1] = <<>>

\* the loop of _DIV_UNIT, run step by step, returns what the function
\* _DIV_UNIT of the model returns
DivUnitAgrees ==
    (call.op = "_DIV_UNIT" /\ ret = "Ok") =>
        /\ call.out = _DIV_UNIT(call.unit, call.n0).ret
        /\ call.n = _DIV_UNIT(call.unit, call.n0).n

\* C13: for every number n0 >= 0 and every unit > 0, _DIV_UNIT returns, and
\* the elements of what it returns add up to n0 and are each at most unit.
C13_DivUnitSum ==
    /\ <>(ret = "Ok")
    /\ [](ret = "Ok" =>
            /\ SeqSum(call.out) = call.n0
            /\ \A i \in 1..Len(call.out) : call.out[i] <= call.unit)

\* C13 happens: 7 has been divided by the unit 3 into 3, 3 and 1
C13_Witness ==
    /\ call.op = "_DIV_UNIT" /\ ret = "Ok"
    /\ call.unit = 3 /\ call.n0 = 7 /\ call.out = <<3, 3, 1>>

C15_JoinOnlyKey ==
    [][call'.op = "join" =>
          /\ Counts(r_p') = Counts(r_p)
          /\ r_p'.UNIT = r_p.UNIT
          /\ r_p'.DATA = r_p.DATA
          /\ (ret' # "Ok") => r_p'.key = r_p.key
          /\ (call.op = "join" /\ ret = "Ok") =>
                (ret' = "Ok" /\ Scan(r_p'.key) = Scan(r_p.key))]_vars

\* C15 happens: with the unit 1, so that chunking takes every count down to
\* zero, a key of a letter and a digit has been generated and a letter and a
\* digit are still asked for
C15_Witness ==
    /\ call.op = "join" /\ ret = "Ok"
    /\ r_p.UNIT = 1 /\ Counts(r_p) = <<1, 0, 1>>
    /\ Scan(r_p.key) = <<1, 0, 1>> /\ r_p.DATA[2] = <<>>

\* C16: in join, after whatever calls came before, _RAND_IDX is never called
\* with a count above zero and an alphabet subset of size zero: join does not
\* panic; when a class with a count above zero has an empty subset the call is
\* rejected with MissChar before any draw and the key is kept; and when join
\* samples, every class with an empty subset has the count zero and adds no
\* character to the key.
C16_NoEmptySampling ==
    [][call'.op = "join" =>
          /\ ret' \in {"Ok", "MissChar"}
          /\ MissingClass(r_p) => (ret' = "MissChar" /\ r_p'.key = r_p.key)
          /\ ret' = "Ok" =>
                \A k \in 1..3 :
                    Len(r_p.DATA[k]) = 0 =>
                        (Counts(r_p)[k] = 0 /\ Scan(r_p'.key)[k] = 0)]_vars

\* C16 happens: join has generated a key of one letter from an alphabet whose
\* symbols and numbers are empty, none of either being asked for
C16_Witness ==
    /\ call.op = "join" /\ ret = "Ok"
    /\ Counts(r_p) = <<1, 0, 0>> /\ Len(r_p.key) = 1
    /\ r_p.DATA[1] # <<>> /\ r_p.DATA[2] = <<>> /\ r_p.DATA[3] = <<>>

\* _CNT run step by step returns what the function _CNT of the model returns
CntAgrees ==
    (call.op = "_CNT" /\ ret # "pending") =>
        /\ ret = _CNT(call.text).err
        /\ ret = "Ok" => call.out = _CNT(call.text).val

\* the characters of the text whose closure has run
Tallied(c) == SelectSeq([i \in 1..Len(c.text) |-> IF i \in c.todo THEN 0 ELSE c.text[i]],
                        LAMBDA x : x # 0)

====
